---- MODULE Spec2Model ----
(***************************************************************************)
(* The stream producer daemon (package stream, ProducerDaemon): Write      *)
(* buffers messages, optionally folds them into aggregates, groups them    *)
(* into batches and hands the batches over an output channel to a pool of  *)
(* output loops; a ticker loop and the shutdown path force-flush the       *)
(* buffers.  Every action is one step of one goroutine between two points  *)
(* at which it can be suspended (taking the lock, pushing onto or reading  *)
(* from the channel, the sink call).                                       *)
(***************************************************************************)
EXTENDS Integers, Sequences, FiniteSets, TLC

VARIABLES
    settings,   \* ProducerDaemonSettings, fixed at construction
    workload,   \* the Write calls the callers issue: their lengths, the total
                \* of messages, the calls per caller, and whether they call
                \* before Run has started; and what the sink's Write may do
    lck,        \* d.lck: the task holding it, or NoTask
    aggregate,  \* d.aggregate
    batch,      \* d.batch
    outCh,      \* d.outCh: [ch: the queued batches, closed]
    ticker,     \* d.ticker: "nil" before Run, then "running", then "stopped"
    resets,     \* history: how many times d.ticker.Reset() has been called
    idleDuration,        \* per output loop: the time its last Read took
    metricIdleDuration,  \* the last IdleDuration datum written: the idle
                         \* time it was written for, and its Value
    ctxDone,    \* kernelCtx is cancelled
    dying,      \* cfn.Dying(): a goroutine of the coffin has panicked
    run,        \* position of Run
    runErr,     \* what Run returned
    pc,         \* position of every task that takes the lock
    ready,      \* readyBatch of a task suspended in flushBatch
    callers,    \* per caller: the call in progress (its messages, and whether
                \* Run had returned when it was made) and its last result
    workers,    \* per output loop: position and the batch it holds
    written,    \* history: the raw messages in the order Write accepted them
    pushed,     \* history: every batch handed to outCh.Write, with its task
    sunk,       \* history: every batch passed to output.Write
    failed,     \* history: the batches for which output.Write returned an error
    folded,     \* history: every fold handed to the marshaller, and its outcome
    acked,      \* history: the messages of the Write calls that returned nil
    atCancel,   \* history: the messages of the Write calls that had returned
                \* nil when kernelCtx was cancelled
    producerDaemonLock,  \* the package lock: NoRequester, or its holder
    producerDaemons,     \* the package map: name -> *ProducerDaemon
    allocated,           \* the daemons NewProducerDaemon has allocated so far
    requests,            \* per requester: position, name asked for, result
    registryResets,      \* history: how often the map has been replaced
    constructions,       \* history: every call of NewProducerDaemon
    provided             \* history: every return of ProvideProducerDaemon

daemonVars == <<settings, workload, lck, aggregate, batch, outCh, ticker,
                resets, idleDuration, metricIdleDuration, ctxDone, dying, run,
                runErr, pc, ready, callers, workers, written, pushed, sunk,
                failed, folded, acked, atCancel>>

registryVars == <<producerDaemonLock, producerDaemons, allocated, requests,
                  registryResets, constructions, provided>>

vars == <<daemonVars, registryVars>>

(***************************************************************************)
(* Bounds of the model.                                                    *)
(***************************************************************************)
MaxWriteLen == 3
MaxMessages == 3
MaxBatchSize == 2
MaxAggregationSize == 2
MaxBufferSize == 1
MaxHalfMillis == 3       \* flush intervals of up to this many half milliseconds
MaxRequests == 5         \* calls of ProvideProducerDaemon and ResetProducerDaemons

\* The concurrent callers of Write, and the output loops a daemon may run.
Callers == {1, 2}
Runners == {1, 2}

AttributeAggregate == "goso.aggregate"

\* The goroutines that call ProvideProducerDaemon and ResetProducerDaemons,
\* the names they ask for, and the nil *ProducerDaemon; an allocated daemon
\* is identified by a positive number.
Requesters == {1, 2}
Names == {"a", "b"}
NoRequester == 0
nil == 0

\* time.Duration counts nanoseconds.
Millisecond == 1000000
Second == 1000 * Millisecond

NoTask == <<"none", 0>>
WriteTask(c) == <<"Write", c>>
tickerTask == <<"tickerLoop", 0>>
closeTask == <<"close", 0>>
Tasks == {WriteTask(c) : c \in Callers} \cup {tickerTask, closeTask}

SettingsSpace ==
    [BatchSize : 1..MaxBatchSize,
     AggregationSize : 1..MaxAggregationSize,
     RunnerCount : Runners,
     BufferSize : 1..MaxBufferSize,
     Interval : {Second},
     MessageAttributes : {{"static"}}]

\* A raw message: the k-th message of the given call of caller c.
Message(c, call, k) == [id |-> <<c, call, k>>, attributes |-> {}]

Min(a, b) == IF a < b THEN a ELSE b

RECURSIVE Flatten(_)
Flatten(ss) == IF ss = <<>> THEN <<>> ELSE Head(ss) \o Flatten(Tail(ss))

Range(s) == {s[i] : i \in 1..Len(s)}

(***************************************************************************)
(* The collaborators of the daemon that are not part of its source file:   *)
(* the output channel, the marshaller and the coffin.                      *)
(***************************************************************************)

\* OutputChannel.Write blocks while the queue is full; once the channel is
\* closed it returns at once.
outChCanWrite(ch) == ch.closed \/ Len(ch.ch) < settings.BufferSize

\* OutputChannel.Write: enqueue; once closed, no further push occurs.
outChWrite(ch, msgs) ==
    IF ch.closed THEN ch ELSE [ch EXCEPT !.ch = Append(@, msgs)]

\* OutputChannel.Close
outChClose(ch) == [ch EXCEPT !.closed = TRUE]

\* OutputChannel.Read returns once a batch is queued or the channel is
\* closed and drained.
outChCanRead(ch) == ch.ch # <<>> \/ ch.closed

\* cfn.Wait() returns once every goroutine started on the coffin has ended.
cfnAllEnded ==
    /\ pc[tickerTask] = "done"
    /\ \A w \in Runners : workers[w].pc \in {"off", "done", "panicked"}

(***************************************************************************)
(* The buffer operations of the daemon, as functions of the buffers.       *)
(***************************************************************************)

\* BuildAggregateMessage: the marshaller's message for readyAggregate, with
\* the static attributes and the aggregate flag.
BuildAggregateMessage(readyAggregate, attributes) ==
    [body |-> readyAggregate,
     attributes |-> attributes \cup {AttributeAggregate}]

\* Mutant of flushAggregate: the fold takes the whole buffer, not at most
\* AggregationSize messages.
flushAggregate_DrainAll(agg, marshalOk) ==
    IF Len(agg) = 0
    THEN [aggregate |-> agg, out |-> <<>>, err |-> FALSE,
          taken |-> <<>>, lost |-> <<>>]
    ELSE IF marshalOk
         THEN [aggregate |-> <<>>,
               out |-> <<BuildAggregateMessage(agg, settings.MessageAttributes)>>,
               err |-> FALSE, taken |-> agg, lost |-> <<>>]
         ELSE [aggregate |-> <<>>, out |-> <<>>, err |-> TRUE,
               taken |-> agg, lost |-> agg]

\* Mutant of flushAggregate: without the early return on an empty buffer, an
\* empty buffer is folded too.
flushAggregate_NoEmptyCheck(agg, marshalOk) ==
    LET size == Min(settings.AggregationSize, Len(agg))
        readyAggregate == SubSeq(agg, 1, size)
        rest == SubSeq(agg, size + 1, Len(agg))
    IN  IF marshalOk
        THEN [aggregate |-> rest,
              out |-> <<BuildAggregateMessage(readyAggregate,
                                              settings.MessageAttributes)>>,
              err |-> FALSE, taken |-> readyAggregate, lost |-> <<>>]
        ELSE [aggregate |-> rest, out |-> <<>>, err |-> TRUE,
              taken |-> readyAggregate, lost |-> readyAggregate]

\* Mutant of flushAggregate: when the fold fails, the messages taken for it
\* are put back in front of the buffer.
flushAggregate_RestoreOnError(agg, marshalOk) ==
    IF Len(agg) = 0
    THEN [aggregate |-> agg, out |-> <<>>, err |-> FALSE,
          taken |-> <<>>, lost |-> <<>>]
    ELSE LET size == Min(settings.AggregationSize, Len(agg))
             readyAggregate == SubSeq(agg, 1, size)
             rest == SubSeq(agg, size + 1, Len(agg))
         IN  IF marshalOk
             THEN [aggregate |-> rest,
                   out |-> <<BuildAggregateMessage(readyAggregate,
                                                   settings.MessageAttributes)>>,
                   err |-> FALSE, taken |-> readyAggregate, lost |-> <<>>]
             ELSE [aggregate |-> agg, out |-> <<>>, err |-> TRUE,
                   taken |-> readyAggregate, lost |-> <<>>]

\* flushAggregate on d.aggregate = agg; marshalOk is the marshaller's outcome.
\* out is the returned slice, lost the messages removed for a failed fold.
flushAggregate(agg, marshalOk) ==
    IF Len(agg) = 0
    THEN [aggregate |-> agg, out |-> <<>>, err |-> FALSE,
          taken |-> <<>>, lost |-> <<>>]
    ELSE LET size == Min(settings.AggregationSize, Len(agg))
             readyAggregate == SubSeq(agg, 1, size)
             rest == SubSeq(agg, size + 1, Len(agg))
         IN  IF marshalOk
             THEN [aggregate |-> rest,
                   out |-> <<BuildAggregateMessage(readyAggregate,
                                                   settings.MessageAttributes)>>,
                   err |-> FALSE, taken |-> readyAggregate, lost |-> <<>>]
             ELSE [aggregate |-> rest, out |-> <<>>, err |-> TRUE,
                   taken |-> readyAggregate, lost |-> readyAggregate]

\* Mutant of applyAggregation: aggregation size 1 is no special case, every
\* message goes through d.aggregate and a fold.
applyAggregation_NoPassThrough(agg, msgs, marshalOk) ==
    LET appended == agg \o msgs
    IN  IF Len(appended) < settings.AggregationSize
        THEN [aggregate |-> appended, out |-> <<>>, err |-> FALSE,
              taken |-> <<>>, lost |-> <<>>]
        ELSE flushAggregate(appended, marshalOk)

\* Mutant of applyAggregation: the buffer is only flushed once it holds more
\* than AggregationSize messages.
applyAggregation_AboveThreshold(agg, msgs, marshalOk) ==
    IF settings.AggregationSize <= 1
    THEN [aggregate |-> agg, out |-> msgs, err |-> FALSE,
          taken |-> <<>>, lost |-> <<>>]
    ELSE LET appended == agg \o msgs
         IN  IF Len(appended) <= settings.AggregationSize
             THEN [aggregate |-> appended, out |-> <<>>, err |-> FALSE,
                   taken |-> <<>>, lost |-> <<>>]
             ELSE flushAggregate(appended, marshalOk)

\* applyAggregation on d.aggregate = agg for the messages msgs of a Write.
applyAggregation(agg, msgs, marshalOk) ==
    IF settings.AggregationSize <= 1
    THEN [aggregate |-> agg, out |-> msgs, err |-> FALSE,
          taken |-> <<>>, lost |-> <<>>]
    ELSE LET appended == agg \o msgs
         IN  IF Len(appended) < settings.AggregationSize
             THEN [aggregate |-> appended, out |-> <<>>, err |-> FALSE,
                   taken |-> <<>>, lost |-> <<>>]
             ELSE flushAggregate(appended, marshalOk)

\* Mutant of flushBatch: the cut is one message longer than BatchSize.
flushBatch_OneTooMany(bat) ==
    IF Len(bat) = 0
    THEN [batch |-> bat, readyBatch |-> <<>>]
    ELSE LET size == Min(settings.BatchSize + 1, Len(bat))
         IN  [batch |-> SubSeq(bat, size + 1, Len(bat)),
              readyBatch |-> SubSeq(bat, 1, size)]

\* Mutant of flushBatch: the whole buffer is handed over as one batch.
flushBatch_TakeAll(bat) ==
    IF Len(bat) = 0
    THEN [batch |-> bat, readyBatch |-> <<>>]
    ELSE [batch |-> <<>>, readyBatch |-> bat]

\* Mutant of flushBatch: the batch is cut from the back of the buffer.
flushBatch_TakeLast(bat) ==
    IF Len(bat) = 0
    THEN [batch |-> bat, readyBatch |-> <<>>]
    ELSE LET size == Min(settings.BatchSize, Len(bat))
         IN  [batch |-> SubSeq(bat, 1, Len(bat) - size),
              readyBatch |-> SubSeq(bat, Len(bat) - size + 1, Len(bat))]

\* flushBatch on d.batch = bat: readyBatch is what it hands to outCh.Write,
\* <<>> when it returns without a push.
flushBatch(bat) ==
    IF Len(bat) = 0
    THEN [batch |-> bat, readyBatch |-> <<>>]
    ELSE LET size == Min(settings.BatchSize, Len(bat))
         IN  [batch |-> SubSeq(bat, size + 1, Len(bat)),
              readyBatch |-> SubSeq(bat, 1, size)]

\* Mutant of flushAll: flushBatch is called although the fold has failed.
flushAll_FlushBatchOnError(agg, bat, marshalOk) ==
    LET a == flushAggregate(agg, marshalOk)
        b == flushBatch(bat \o a.out)
    IN  [aggregate |-> a.aggregate, batch |-> b.batch,
         readyBatch |-> b.readyBatch, err |-> a.err,
         taken |-> a.taken, lost |-> a.lost]

\* Mutant of flushAll: nothing is forced; a buffer below its threshold is left
\* alone.
flushAll_OnlyAtThreshold(agg, bat, marshalOk) ==
    LET a == IF Len(agg) < settings.AggregationSize
             THEN [aggregate |-> agg, out |-> <<>>, err |-> FALSE,
                   taken |-> <<>>, lost |-> <<>>]
             ELSE flushAggregate(agg, marshalOk)
    IN  IF a.err
        THEN [aggregate |-> a.aggregate, batch |-> bat, readyBatch |-> <<>>,
              err |-> TRUE, taken |-> a.taken, lost |-> a.lost]
        ELSE LET b == IF Len(bat \o a.out) < settings.BatchSize
                      THEN [batch |-> bat \o a.out, readyBatch |-> <<>>]
                      ELSE flushBatch(bat \o a.out)
             IN  [aggregate |-> a.aggregate, batch |-> b.batch,
                  readyBatch |-> b.readyBatch, err |-> FALSE,
                  taken |-> a.taken, lost |-> <<>>]

\* Mutant of flushAll: the carrier message of the forced fold is put in front
\* of the pending batch buffer.
flushAll_AggregateFirst(agg, bat, marshalOk) ==
    LET a == flushAggregate(agg, marshalOk)
    IN  IF a.err
        THEN [aggregate |-> a.aggregate, batch |-> bat, readyBatch |-> <<>>,
              err |-> TRUE, taken |-> a.taken, lost |-> a.lost]
        ELSE LET b == flushBatch(a.out \o bat)
             IN  [aggregate |-> a.aggregate, batch |-> b.batch,
                  readyBatch |-> b.readyBatch, err |-> FALSE,
                  taken |-> a.taken, lost |-> <<>>]

\* flushAll up to the push of flushBatch.
flushAll(agg, bat, marshalOk) ==
    LET a == flushAggregate(agg, marshalOk)
    IN  IF a.err
        THEN [aggregate |-> a.aggregate, batch |-> bat, readyBatch |-> <<>>,
              err |-> TRUE, taken |-> a.taken, lost |-> a.lost]
        ELSE LET b == flushBatch(bat \o a.out)
             IN  [aggregate |-> a.aggregate, batch |-> b.batch,
                  readyBatch |-> b.readyBatch, err |-> FALSE,
                  taken |-> a.taken, lost |-> <<>>]

\* The raw messages a carrier message stands for.
RawOf(m) == IF AttributeAggregate \in m.attributes THEN m.body ELSE <<m>>

RECURSIVE RawOfAll(_)
RawOfAll(ms) == IF ms = <<>> THEN <<>> ELSE RawOf(Head(ms)) \o RawOfAll(Tail(ms))

(***************************************************************************)
(* Construction.                                                           *)
(***************************************************************************)

\* NewProducerDaemonWithInterfaces: empty buffers, an open channel, no ticker.
InitDaemon ==
    /\ lck = NoTask
    /\ aggregate = <<>>
    /\ batch = <<>>
    /\ outCh = [ch |-> <<>>, closed |-> FALSE]
    /\ ticker = "nil"
    /\ resets = 0
    /\ idleDuration = [w \in Runners |-> 0]
    /\ metricIdleDuration = [idle |-> 0, value |-> 0]
    /\ ctxDone = FALSE
    /\ dying = FALSE
    /\ run = "created"
    /\ runErr = "none"
    /\ pc = [t \in Tasks |-> IF t[1] = "Write" THEN "idle" ELSE "off"]
    /\ ready = [t \in Tasks |-> <<>>]
    /\ callers = [c \in Callers |->
                    [arg |-> <<>>, calls |-> 0, sent |-> 0,
                     result |-> "none", late |-> FALSE]]
    /\ workers = [w \in Runners |-> [pc |-> "off", batch |-> <<>>]]
    /\ written = <<>>
    /\ pushed = <<>>
    /\ sunk = <<>>
    /\ failed = {}
    /\ folded = <<>>
    /\ acked = {}
    /\ atCancel = {}
    /\ producerDaemonLock = NoRequester
    /\ producerDaemons = <<>>
    /\ allocated = 0
    /\ requests = [r \in Requesters |->
                     [pc |-> "idle", name |-> "", daemon |-> nil,
                      err |-> "none", epoch |-> 0]]
    /\ registryResets = 0
    /\ constructions = <<>>
    /\ provided = <<>>

\* What d.output.Write may do: return nil, return an error, return the
\* error of a cancelled request, or panic.  A returned error is only logged:
\* it leads the daemon to the same state as nil does, so the sink returns
\* errors in the workloads of SpecSink, SpecBurst and SpecExample only.
SinkOutcomes == {"ok", "error", "canceled", "panic"}
SinkNeverFails == {"ok", "panic"}

Init ==
    /\ settings \in SettingsSpace
    /\ workload = [lens |-> 0..MaxWriteLen, total |-> MaxMessages,
                   calls |-> 1, early |-> FALSE, sink |-> SinkNeverFails,
                   idle |-> {0}]
    /\ InitDaemon

RECURSIVE SumSent(_)
SumSent(S) ==
    IF S = {} THEN 0
    ELSE LET c == CHOOSE x \in S : TRUE
         IN  callers[c].sent + SumSent(S \ {c})

TotalSent == SumSent(Callers)

\* The history of a fold: the task, the messages taken, the outcome.
Folds(t, r, marshalOk) ==
    IF r.taken = <<>> THEN folded
    ELSE Append(folded, [task |-> t, msgs |-> r.taken, ok |-> marshalOk])

(***************************************************************************)
(* Write                                                                   *)
(***************************************************************************)

\* A caller invokes Write with n new messages.
WriteCall(c, n) ==
    /\ pc[WriteTask(c)] = "idle"
    /\ run # "created" \/ workload.early
    /\ callers[c].calls < workload.calls
    /\ TotalSent + n <= workload.total
    /\ callers' = [callers EXCEPT ![c] =
                     [arg |-> [i \in 1..n |-> Message(c, @.calls + 1, i)],
                      calls |-> @.calls + 1,
                      sent |-> @.sent + n,
                      result |-> "none",
                      late |-> run = "returned"]]
    /\ pc' = [pc EXCEPT ![WriteTask(c)] = "lock"]
    /\ UNCHANGED registryVars
    /\ UNCHANGED <<settings, workload, lck, aggregate, batch, outCh, ticker,
                   resets, idleDuration, metricIdleDuration, ctxDone, dying,
                   run, runErr, ready, workers, written, pushed, sunk, failed,
                   folded, acked, atCancel>>

\* Mutant of WriteReturn: once a sink write has failed, Write reports an error.
WriteReturn_ErrAfterSinkFailure(c, res) ==
    /\ lck' = NoTask
    /\ pc' = [pc EXCEPT ![WriteTask(c)] = "idle"]
    /\ callers' = [callers EXCEPT
                     ![c].result = IF failed # {} THEN "err" ELSE res,
                     ![c].arg = <<>>]
    /\ acked' = IF res = "nil" THEN acked \cup Range(callers[c].arg) ELSE acked

\* Write returns res and its deferred Unlock runs.
WriteReturn(c, res) ==
    /\ lck' = NoTask
    /\ pc' = [pc EXCEPT ![WriteTask(c)] = "idle"]
    /\ callers' = [callers EXCEPT ![c].result = res, ![c].arg = <<>>]
    /\ acked' = IF res = "nil" THEN acked \cup Range(callers[c].arg) ELSE acked

\* Write from d.lck.Lock() up to its return or to the push of flushBatch: the
\* lock is taken when it is free and nothing suspends the call in between.
Write(c, msgs) ==
    LET t == WriteTask(c) IN
    /\ pc[t] = "lock"
    /\ lck = NoTask
    /\ \E marshalOk \in BOOLEAN :
         LET a == applyAggregation(aggregate, msgs, marshalOk)
             appended == batch \o a.out
             f == flushBatch(appended)
         IN  /\ aggregate' = a.aggregate
             /\ written' = written \o msgs
             /\ folded' = Folds(t, a, marshalOk)
             /\ IF a.err
                THEN /\ WriteReturn(c, "err")
                     /\ UNCHANGED <<batch, ready, resets>>
                ELSE IF Len(appended) < settings.BatchSize
                THEN /\ WriteReturn(c, "nil")
                     /\ batch' = appended
                     /\ UNCHANGED <<ready, resets>>
                ELSE IF ticker = "nil"
                THEN \* d.ticker.Reset() on the nil ticker panics
                     /\ WriteReturn(c, "panic")
                     /\ batch' = appended
                     /\ UNCHANGED <<ready, resets>>
                ELSE /\ resets' = resets + 1
                     /\ batch' = f.batch
                     /\ ready' = [ready EXCEPT ![t] = f.readyBatch]
                     /\ pc' = [pc EXCEPT ![t] = "push"]
                     /\ lck' = t
                     /\ UNCHANGED <<callers, acked>>
    /\ UNCHANGED registryVars
    /\ UNCHANGED <<settings, workload, outCh, ticker, idleDuration,
                   metricIdleDuration, ctxDone, dying, run, runErr, workers,
                   pushed, sunk, failed, atCancel>>

\* Mutant of WriteBody: the call takes the lock for one message at a time, as
\* a loop of WriteOne calls would.
WriteBody_OneByOne(c) ==
    IF Len(callers[c].arg) <= 1
    THEN Write(c, callers[c].arg)
    ELSE /\ pc[WriteTask(c)] = "lock"
         /\ lck = NoTask
         /\ written' = Append(written, Head(callers[c].arg))
         /\ IF settings.AggregationSize > 1
            THEN /\ aggregate' = Append(aggregate, Head(callers[c].arg))
                 /\ UNCHANGED batch
            ELSE /\ batch' = Append(batch, Head(callers[c].arg))
                 /\ UNCHANGED aggregate
         /\ callers' = [callers EXCEPT ![c].arg = Tail(@)]
         /\ UNCHANGED registryVars
         /\ UNCHANGED <<settings, workload, lck, outCh, ticker, resets,
                        idleDuration, metricIdleDuration, ctxDone, dying, run,
                        runErr, pc, ready, workers, pushed, sunk, failed,
                        folded, acked, atCancel>>

\* The Write call of caller c runs with the whole batch it was called with.
WriteBody(c) == Write(c, callers[c].arg)

\* d.outCh.Write(readyBatch) of a task suspended in flushBatch.
Push(t) ==
    /\ pc[t] = "push"
    /\ outChCanWrite(outCh)
    /\ outCh' = outChWrite(outCh, ready[t])
    /\ pushed' = Append(pushed, [task |-> t, batch |-> ready[t],
                                 closed |-> outCh.closed])
    /\ ready' = [ready EXCEPT ![t] = <<>>]

WritePush(c) ==
    /\ Push(WriteTask(c))
    /\ WriteReturn(c, "nil")
    /\ UNCHANGED registryVars
    /\ UNCHANGED <<settings, workload, aggregate, batch, ticker, resets,
                   idleDuration, metricIdleDuration, ctxDone, dying, run,
                   runErr, workers, written, sunk, failed, folded, atCancel>>

(***************************************************************************)
(* tickerLoop                                                              *)
(***************************************************************************)

\* case <-ctx.Done(): stop the ticker and return.
TickerDone ==
    /\ pc[tickerTask] = "select"
    /\ ctxDone
    /\ ticker' = "stopped"
    /\ pc' = [pc EXCEPT ![tickerTask] = "done"]
    /\ UNCHANGED registryVars
    /\ UNCHANGED <<settings, workload, lck, aggregate, batch, outCh, resets,
                   idleDuration, metricIdleDuration, ctxDone, dying, run,
                   runErr, ready, callers, workers, written, pushed, sunk,
                   failed, folded, acked, atCancel>>

\* case <-d.ticker.Tick()
TickerTick ==
    /\ pc[tickerTask] = "select"
    /\ ticker = "running"
    /\ pc' = [pc EXCEPT ![tickerTask] = "lock"]
    /\ UNCHANGED registryVars
    /\ UNCHANGED <<settings, workload, lck, aggregate, batch, outCh, ticker,
                   resets, idleDuration, metricIdleDuration, ctxDone, dying,
                   run, runErr, ready, callers, workers, written, pushed, sunk,
                   failed, folded, acked, atCancel>>

\* Mutant of TickerBody: the tick runs flushAll without waiting for d.lck.
TickerBody_NoLock ==
    /\ pc[tickerTask] = "lock"
    /\ \E marshalOk \in BOOLEAN :
         LET f == flushAll(aggregate, batch, marshalOk)
         IN  /\ aggregate' = f.aggregate
             /\ batch' = f.batch
             /\ folded' = Folds(tickerTask, f, marshalOk)
             /\ IF f.readyBatch = <<>>
                THEN /\ lck' = NoTask
                     /\ pc' = [pc EXCEPT ![tickerTask] = "select"]
                     /\ UNCHANGED ready
                ELSE /\ ready' = [ready EXCEPT ![tickerTask] = f.readyBatch]
                     /\ pc' = [pc EXCEPT ![tickerTask] = "push"]
                     /\ lck' = tickerTask
    /\ UNCHANGED registryVars
    /\ UNCHANGED <<settings, workload, outCh, ticker, resets, idleDuration,
                   metricIdleDuration, ctxDone, dying, run, runErr, callers,
                   workers, written, pushed, sunk, failed, acked, atCancel>>

\* A tick from d.lck.Lock() through flushAll, up to d.lck.Unlock() or to the
\* push of flushBatch.
TickerBody ==
    /\ pc[tickerTask] = "lock"
    /\ lck = NoTask
    /\ \E marshalOk \in BOOLEAN :
         LET f == flushAll(aggregate, batch, marshalOk)
         IN  /\ aggregate' = f.aggregate
             /\ batch' = f.batch
             /\ folded' = Folds(tickerTask, f, marshalOk)
             /\ IF f.readyBatch = <<>>
                THEN /\ lck' = NoTask
                     /\ pc' = [pc EXCEPT ![tickerTask] = "select"]
                     /\ UNCHANGED ready
                ELSE /\ ready' = [ready EXCEPT ![tickerTask] = f.readyBatch]
                     /\ pc' = [pc EXCEPT ![tickerTask] = "push"]
                     /\ lck' = tickerTask
    /\ UNCHANGED registryVars
    /\ UNCHANGED <<settings, workload, outCh, ticker, resets, idleDuration,
                   metricIdleDuration, ctxDone, dying, run, runErr, callers,
                   workers, written, pushed, sunk, failed, acked, atCancel>>

TickerPush ==
    /\ Push(tickerTask)
    /\ lck' = NoTask
    /\ pc' = [pc EXCEPT ![tickerTask] = "select"]
    /\ UNCHANGED registryVars
    /\ UNCHANGED <<settings, workload, aggregate, batch, ticker, resets,
                   idleDuration, metricIdleDuration, ctxDone, dying, run,
                   runErr, callers, workers, written, sunk, failed, folded,
                   acked, atCancel>>

(***************************************************************************)
(* Run and close                                                           *)
(***************************************************************************)

\* Run creates the ticker and starts the output loops and the ticker loop.
RunStart ==
    /\ run = "created"
    /\ run' = "select"
    /\ ticker' = "running"
    /\ workers' = [w \in Runners |->
                     IF w <= settings.RunnerCount
                     THEN [workers[w] EXCEPT !.pc = "read"]
                     ELSE workers[w]]
    /\ pc' = [pc EXCEPT ![tickerTask] = "select"]
    /\ UNCHANGED registryVars
    /\ UNCHANGED <<settings, workload, lck, aggregate, batch, outCh, resets,
                   idleDuration, metricIdleDuration, ctxDone, dying, runErr,
                   ready, callers, written, pushed, sunk, failed, folded,
                   acked, atCancel>>

\* The surrounding context is cancelled.
Cancel ==
    /\ ~ctxDone
    /\ ctxDone' = TRUE
    /\ atCancel' = acked
    /\ UNCHANGED registryVars
    /\ UNCHANGED <<settings, workload, lck, aggregate, batch, outCh, ticker,
                   resets, idleDuration, metricIdleDuration, dying, run,
                   runErr, pc, ready, callers, workers, written, pushed, sunk,
                   failed, folded, acked>>

\* Mutant of RunSelect: Run goes from its select straight to cfn.Wait(),
\* without calling d.close().
RunSelect_SkipsClose ==
    /\ run = "select"
    /\ dying \/ ctxDone
    /\ run' = "wait"
    /\ UNCHANGED registryVars
    /\ UNCHANGED <<settings, workload, lck, aggregate, batch, outCh, ticker,
                   resets, idleDuration, metricIdleDuration, ctxDone, dying,
                   runErr, pc, ready, callers, workers, written, pushed, sunk,
                   failed, folded, acked, atCancel>>

\* The select of Run: cfn.Dying() or kernelCtx.Done(), then d.close().
RunSelect ==
    /\ run = "select"
    /\ dying \/ ctxDone
    /\ run' = "close"
    /\ pc' = [pc EXCEPT ![closeTask] = "lock"]
    /\ UNCHANGED registryVars
    /\ UNCHANGED <<settings, workload, lck, aggregate, batch, outCh, ticker,
                   resets, idleDuration, metricIdleDuration, ctxDone, dying,
                   runErr, ready, callers, workers, written, pushed, sunk,
                   failed, folded, acked, atCancel>>

\* close returns: the deferred d.outCh.Close() and Unlock run; Run returns the
\* error of close at once, and cfn.Wait() otherwise.
CloseReturn(err) ==
    /\ lck' = NoTask
    /\ pc' = [pc EXCEPT ![closeTask] = "done"]
    /\ run' = IF err THEN "returned" ELSE "wait"
    /\ runErr' = IF err THEN "error on close" ELSE runErr

\* close from d.lck.Lock() through flushAll, up to its return or to the push
\* of flushBatch.
CloseBody ==
    /\ pc[closeTask] = "lock"
    /\ lck = NoTask
    /\ \E marshalOk \in BOOLEAN :
         LET f == flushAll(aggregate, batch, marshalOk)
         IN  /\ aggregate' = f.aggregate
             /\ batch' = f.batch
             /\ folded' = Folds(closeTask, f, marshalOk)
             /\ IF f.readyBatch = <<>>
                THEN /\ CloseReturn(f.err)
                     /\ outCh' = outChClose(outCh)
                     /\ UNCHANGED ready
                ELSE /\ ready' = [ready EXCEPT ![closeTask] = f.readyBatch]
                     /\ pc' = [pc EXCEPT ![closeTask] = "push"]
                     /\ lck' = closeTask
                     /\ UNCHANGED <<run, runErr, outCh>>
    /\ UNCHANGED registryVars
    /\ UNCHANGED <<settings, workload, ticker, resets, idleDuration,
                   metricIdleDuration, ctxDone, dying, callers, workers,
                   written, pushed, sunk, failed, acked, atCancel>>

\* Mutant of ClosePush: the channel is closed before the push of the final
\* flush is made.
ClosePush_CloseFirst ==
    /\ pc[closeTask] = "push"
    /\ outCh' = outChWrite(outChClose(outCh), ready[closeTask])
    /\ pushed' = Append(pushed, [task |-> closeTask, batch |-> ready[closeTask],
                                 closed |-> TRUE])
    /\ ready' = [ready EXCEPT ![closeTask] = <<>>]
    /\ CloseReturn(FALSE)
    /\ UNCHANGED registryVars
    /\ UNCHANGED <<settings, workload, aggregate, batch, ticker, resets,
                   idleDuration, metricIdleDuration, ctxDone, dying, callers,
                   workers, written, sunk, failed, folded, acked, atCancel>>

ClosePush ==
    /\ pc[closeTask] = "push"
    /\ outChCanWrite(outCh)
    /\ outCh' = outChClose(outChWrite(outCh, ready[closeTask]))
    /\ pushed' = Append(pushed, [task |-> closeTask, batch |-> ready[closeTask],
                                 closed |-> outCh.closed])
    /\ ready' = [ready EXCEPT ![closeTask] = <<>>]
    /\ CloseReturn(FALSE)
    /\ UNCHANGED registryVars
    /\ UNCHANGED <<settings, workload, aggregate, batch, ticker, resets,
                   idleDuration, metricIdleDuration, ctxDone, dying, callers,
                   workers, written, sunk, failed, folded, acked, atCancel>>

\* cfn.Wait(): Run returns once every goroutine has ended.
RunWait ==
    /\ run = "wait"
    /\ cfnAllEnded
    /\ run' = "returned"
    /\ runErr' = IF dying THEN "panic" ELSE "nil"
    /\ UNCHANGED registryVars
    /\ UNCHANGED <<settings, workload, lck, aggregate, batch, outCh, ticker,
                   resets, idleDuration, metricIdleDuration, ctxDone, dying,
                   pc, ready, callers, workers, written, pushed, sunk, failed,
                   folded, acked, atCancel>>

(***************************************************************************)
(* outputLoop                                                              *)
(***************************************************************************)

\* time.Duration.Milliseconds(): the whole milliseconds of a duration.
Milliseconds(d) == d \div Millisecond

\* Mutant of writeMetricIdleDuration: the idle time is written as measured.
writeMetricIdleDuration_NoClamp(idle) == Milliseconds(idle)

\* writeMetricIdleDuration: the Value of the datum written for an idle time.
writeMetricIdleDuration(idle) ==
    LET clamped == IF idle > settings.Interval THEN settings.Interval
                   ELSE idle
    IN  Milliseconds(clamped)

\* Mutant of OutputRead: once the channel is closed the read reports not ok,
\* whatever is still queued.
OutputRead_ClosedMeansDone(w) ==
    /\ workers[w].pc = "read"
    /\ outChCanRead(outCh)
    /\ IF outCh.ch # <<>> /\ ~outCh.closed
       THEN /\ workers' = [workers EXCEPT ![w] =
                             [pc |-> "write", batch |-> Head(outCh.ch)]]
            /\ outCh' = [outCh EXCEPT !.ch = Tail(@)]
            /\ \E d \in workload.idle :
                  idleDuration' = [idleDuration EXCEPT ![w] = d]
       ELSE /\ workers' = [workers EXCEPT ![w].pc = "done"]
            /\ UNCHANGED <<outCh, idleDuration>>
    /\ UNCHANGED registryVars
    /\ UNCHANGED <<settings, workload, lck, aggregate, batch, ticker, resets,
                   metricIdleDuration, ctxDone, dying, run, runErr, pc, ready,
                   callers, written, pushed, sunk, failed, folded, acked,
                   atCancel>>

\* d.outCh.Read(): a batch, or not ok once the channel is closed and drained;
\* idleDuration is the time the read took.
OutputRead(w) ==
    /\ workers[w].pc = "read"
    /\ outChCanRead(outCh)
    /\ IF outCh.ch # <<>>
       THEN /\ workers' = [workers EXCEPT ![w] =
                             [pc |-> "write", batch |-> Head(outCh.ch)]]
            /\ outCh' = [outCh EXCEPT !.ch = Tail(@)]
            /\ \E d \in workload.idle :
                  idleDuration' = [idleDuration EXCEPT ![w] = d]
       ELSE /\ workers' = [workers EXCEPT ![w].pc = "done"]
            /\ UNCHANGED <<outCh, idleDuration>>
    /\ UNCHANGED registryVars
    /\ UNCHANGED <<settings, workload, lck, aggregate, batch, ticker, resets,
                   metricIdleDuration, ctxDone, dying, run, runErr, pc, ready,
                   callers, written, pushed, sunk, failed, folded, acked,
                   atCancel>>

\* Mutant of OutputWrite: the loop returns when the sink write fails.
OutputWrite_ReturnOnError(w) ==
    /\ workers[w].pc = "write"
    /\ \E outcome \in workload.sink :
         /\ sunk' = Append(sunk, workers[w].batch)
         /\ failed' = IF outcome \in {"error", "canceled"}
                      THEN failed \cup {workers[w].batch}
                      ELSE failed
         /\ IF outcome = "panic"
            THEN /\ workers' = [workers EXCEPT ![w] =
                                  [pc |-> "panicked", batch |-> <<>>]]
                 /\ dying' = TRUE
                 /\ UNCHANGED metricIdleDuration
            ELSE /\ workers' = [workers EXCEPT ![w] =
                                  [pc |-> IF outcome = "ok" THEN "read"
                                          ELSE "done",
                                   batch |-> <<>>]]
                 /\ metricIdleDuration' =
                        [idle |-> idleDuration[w],
                         value |-> writeMetricIdleDuration(idleDuration[w])]
                 /\ UNCHANGED dying
    /\ UNCHANGED registryVars
    /\ UNCHANGED <<settings, workload, lck, aggregate, batch, outCh, ticker,
                   resets, idleDuration, ctxDone, run, runErr, pc, ready,
                   callers, written, pushed, folded, acked, atCancel>>

\* Mutant of OutputWrite: a batch whose sink write failed is put back onto
\* the output channel.
OutputWrite_RequeueOnError(w) ==
    /\ workers[w].pc = "write"
    /\ \E outcome \in workload.sink :
         /\ sunk' = Append(sunk, workers[w].batch)
         /\ failed' = IF outcome \in {"error", "canceled"}
                      THEN failed \cup {workers[w].batch}
                      ELSE failed
         /\ outCh' = IF outcome \in {"error", "canceled"}
                     THEN [outCh EXCEPT !.ch = Append(@, workers[w].batch)]
                     ELSE outCh
         /\ IF outcome = "panic"
            THEN /\ workers' = [workers EXCEPT ![w] =
                                  [pc |-> "panicked", batch |-> <<>>]]
                 /\ dying' = TRUE
                 /\ UNCHANGED metricIdleDuration
            ELSE /\ workers' = [workers EXCEPT ![w] =
                                  [pc |-> "read", batch |-> <<>>]]
                 /\ metricIdleDuration' =
                        [idle |-> idleDuration[w],
                         value |-> writeMetricIdleDuration(idleDuration[w])]
                 /\ UNCHANGED dying
    /\ UNCHANGED registryVars
    /\ UNCHANGED <<settings, workload, lck, aggregate, batch, ticker, resets,
                   idleDuration, ctxDone, run, runErr, pc, ready, callers,
                   written, pushed, folded, acked, atCancel>>

\* d.output.Write(ctx, batch) and the rest of the iteration; a panic of the
\* sink ends the loop and kills the coffin.
OutputWrite(w) ==
    /\ workers[w].pc = "write"
    /\ \E outcome \in workload.sink :
         /\ sunk' = Append(sunk, workers[w].batch)
         /\ failed' = IF outcome \in {"error", "canceled"}
                      THEN failed \cup {workers[w].batch}
                      ELSE failed
         /\ IF outcome = "panic"
            THEN /\ workers' = [workers EXCEPT ![w] =
                                  [pc |-> "panicked", batch |-> <<>>]]
                 /\ dying' = TRUE
                 /\ UNCHANGED metricIdleDuration
            ELSE /\ workers' = [workers EXCEPT ![w] =
                                  [pc |-> "read", batch |-> <<>>]]
                 /\ metricIdleDuration' =
                        [idle |-> idleDuration[w],
                         value |-> writeMetricIdleDuration(idleDuration[w])]
                 /\ UNCHANGED dying
    /\ UNCHANGED registryVars
    /\ UNCHANGED <<settings, workload, lck, aggregate, batch, outCh, ticker,
                   resets, idleDuration, ctxDone, run, runErr, pc, ready,
                   callers, written, pushed, folded, acked, atCancel>>

Next ==
    \/ \E c \in Callers, n \in workload.lens : WriteCall(c, n)
    \/ \E c \in Callers : WriteBody(c)
    \/ \E c \in Callers : WritePush(c)
    \/ TickerDone
    \/ TickerTick
    \/ TickerBody
    \/ TickerPush
    \/ RunStart
    \/ Cancel
    \/ RunSelect
    \/ CloseBody
    \/ ClosePush
    \/ RunWait
    \/ \E w \in Runners : OutputRead(w)
    \/ \E w \in Runners : OutputWrite(w)

Spec == Init /\ [][Next]_vars

(***************************************************************************)
(* The example of the specification: interval 1s, batch size 10, no        *)
(* aggregation, one output loop, one Write call of 25 messages.            *)
(***************************************************************************)
ExampleSettings ==
    [BatchSize |-> 10, AggregationSize |-> 1, RunnerCount |-> 1,
     BufferSize |-> 10, Interval |-> Second,
     MessageAttributes |-> {"static"}]

InitExample ==
    /\ settings = ExampleSettings
    /\ workload = [lens |-> {25}, total |-> 25, calls |-> 1, early |-> FALSE,
                   sink |-> SinkOutcomes,
                   idle |-> {0}]
    /\ InitDaemon

\* The callers also call Write on the constructed daemon before Run.
InitCreated ==
    /\ settings \in SettingsSpace
    /\ workload = [lens |-> 0..MaxWriteLen, total |-> MaxMessages,
                   calls |-> 1, early |-> TRUE, sink |-> SinkNeverFails,
                   idle |-> {0}]
    /\ InitDaemon

SpecCreated == InitCreated /\ [][Next]_vars

SpecExample == InitExample /\ [][Next]_vars

(***************************************************************************)
(* A burst: aggregation size 2, batch size 2, one output loop, and a Write *)
(* call that carries more than two aggregates' worth of messages beside a  *)
(* Write call of a single message.                                         *)
(***************************************************************************)
BurstSettings ==
    [BatchSize |-> 2, AggregationSize |-> 2, RunnerCount |-> 1,
     BufferSize |-> 1, Interval |-> Second,
     MessageAttributes |-> {"static"}]

InitBurst ==
    /\ settings = BurstSettings
    /\ workload = [lens |-> {1, 5}, total |-> 6, calls |-> 1, early |-> FALSE,
                   sink |-> SinkOutcomes,
                   idle |-> {0}]
    /\ InitDaemon

SpecBurst == InitBurst /\ [][Next]_vars

(***************************************************************************)
(* A failing sink: batch size 1, so that every carrier message is pushed   *)
(* at once, with and without aggregation, one or two output loops, three   *)
(* messages in calls of one or two, and a sink whose Write may return an   *)
(* error.                                                                  *)
(***************************************************************************)
SinkSettingsSpace ==
    [BatchSize : {1},
     AggregationSize : {1, 2},
     RunnerCount : Runners,
     BufferSize : {1},
     Interval : {Second},
     MessageAttributes : {{"static"}}]

InitSink ==
    /\ settings \in SinkSettingsSpace
    /\ workload = [lens |-> {1, 2}, total |-> 3, calls |-> 1, early |-> FALSE,
                   sink |-> SinkOutcomes,
                   idle |-> {0}]
    /\ InitDaemon

SpecSink == InitSink /\ [][Next]_vars

(***************************************************************************)
(* Idle times: one output loop, batch size 2, no aggregation, two messages *)
(* written one by one, and flush intervals and idle times in steps of half *)
(* a millisecond, so that some are whole milliseconds and some are not,    *)
(* and some idle times are longer than the interval.                       *)
(***************************************************************************)
HalfMillisecond == Millisecond \div 2

MetricSettingsSpace ==
    [BatchSize : {2},
     AggregationSize : {1},
     RunnerCount : {1},
     BufferSize : {1},
     Interval : {k * HalfMillisecond : k \in 1..MaxHalfMillis},
     MessageAttributes : {{"static"}}]

InitMetric ==
    /\ settings \in MetricSettingsSpace
    /\ workload = [lens |-> {1}, total |-> 2, calls |-> 1, early |-> FALSE,
                   sink |-> {"ok", "error", "panic"},
                   idle |-> {k * HalfMillisecond : k \in 0..(MaxHalfMillis + 1)}]
    /\ InitDaemon

SpecMetric == InitMetric /\ [][Next]_vars

(***************************************************************************)
(* Scheduling.  Every goroutine that can take a step eventually takes one: *)
(* Run starts and goes on, the timer keeps ticking, the sink's Write       *)
(* returns (or panics), a push is made once the channel has room.  The     *)
(* steps that compete are scheduled fairly among the competitors (strong   *)
(* fairness): sync.Mutex hands the lock to a waiter that keeps waiting,    *)
(* the select of tickerLoop takes a case that stays ready, and a channel   *)
(* read serves every reader.  The callers of Write and the cancellation of *)
(* the context are the environment: nothing forces them to act.            *)
(***************************************************************************)
Fairness ==
    /\ WF_vars(RunStart)
    /\ WF_vars(RunSelect)
    /\ SF_vars(CloseBody)
    /\ WF_vars(ClosePush)
    /\ WF_vars(RunWait)
    /\ WF_vars(TickerTick)
    /\ SF_vars(TickerDone)
    /\ SF_vars(TickerBody)
    /\ WF_vars(TickerPush)
    /\ \A c \in Callers : SF_vars(WriteBody(c)) /\ WF_vars(WritePush(c))
    /\ \A w \in Runners : SF_vars(OutputRead(w)) /\ WF_vars(OutputWrite(w))

SpecSinkFair == SpecSink /\ Fairness

SpecBurstFair == SpecBurst /\ Fairness

(***************************************************************************)
(* The registry of daemons by name: ProvideProducerDaemon and              *)
(* ResetProducerDaemons, called by concurrent goroutines.  Both hold the   *)
(* package lock from their first statement to their return.                *)
(* NewProducerDaemon fails when NewConfigurableOutput does.                *)
(***************************************************************************)
RequestsMade == Len(provided) + registryResets
                  + Cardinality({r \in Requesters : requests[r].pc # "idle"})

\* A goroutine calls ProvideProducerDaemon(config, logger, name).
ProvideCall(r, name) ==
    /\ requests[r].pc = "idle"
    /\ RequestsMade < MaxRequests
    /\ requests' = [requests EXCEPT ![r] =
                       [pc |-> "lock", name |-> name, daemon |-> nil,
                        err |-> "none", epoch |-> 0]]
    /\ UNCHANGED <<producerDaemonLock, producerDaemons, allocated,
                   registryResets, constructions, provided>>
    /\ UNCHANGED daemonVars

\* Mutant of ProvideLock: the package lock is not taken.
ProvideLock_NoLock(r) ==
    /\ requests[r].pc = "lock"
    /\ requests' = [requests EXCEPT ![r].pc = "lookup"]
    /\ UNCHANGED <<producerDaemonLock, producerDaemons, allocated,
                   registryResets, constructions, provided>>
    /\ UNCHANGED daemonVars

\* producerDaemonLock.Lock()
ProvideLock(r) ==
    /\ requests[r].pc = "lock"
    /\ producerDaemonLock = NoRequester
    /\ producerDaemonLock' = r
    /\ requests' = [requests EXCEPT ![r].pc = "lookup"]
    /\ UNCHANGED <<producerDaemons, allocated, registryResets, constructions,
                   provided>>
    /\ UNCHANGED daemonVars

\* if _, ok := producerDaemons[name]; ok { return producerDaemons[name], nil }
ProvideLookup(r) ==
    /\ requests[r].pc = "lookup"
    /\ LET name == requests[r].name
       IN  IF name \in DOMAIN producerDaemons
           THEN requests' = [requests EXCEPT ![r] =
                               [pc |-> "return", name |-> name,
                                daemon |-> producerDaemons[name],
                                err |-> "nil", epoch |-> registryResets]]
           ELSE requests' = [requests EXCEPT ![r].pc = "construct",
                                             ![r].epoch = registryResets]
    /\ UNCHANGED <<producerDaemonLock, producerDaemons, allocated,
                   registryResets, constructions, provided>>
    /\ UNCHANGED daemonVars

\* producerDaemons[name], err = NewProducerDaemon(config, logger, name) and
\* the return statement that follows: the map keeps what NewProducerDaemon
\* returned, a new daemon or nil.
ProvideConstruct(r) ==
    /\ requests[r].pc = "construct"
    /\ \E ok \in BOOLEAN :
         LET name == requests[r].name
             daemon == IF ok THEN allocated + 1 ELSE nil
         IN  /\ allocated' = IF ok THEN allocated + 1 ELSE allocated
             /\ producerDaemons' =
                    [n \in DOMAIN producerDaemons \cup {name} |->
                        IF n = name THEN daemon ELSE producerDaemons[n]]
             /\ constructions' =
                    Append(constructions,
                           [name |-> name, epoch |-> registryResets, ok |-> ok])
             /\ requests' = [requests EXCEPT ![r].pc = "return",
                                             ![r].daemon = daemon,
                                             ![r].err = IF ok THEN "nil"
                                                        ELSE "error"]
    /\ UNCHANGED <<producerDaemonLock, registryResets, provided>>
    /\ UNCHANGED daemonVars

\* The deferred producerDaemonLock.Unlock() and the return to the caller.
ProvideReturn(r) ==
    /\ requests[r].pc = "return"
    /\ producerDaemonLock' = NoRequester
    /\ provided' = Append(provided,
                          [by |-> r, name |-> requests[r].name,
                           daemon |-> requests[r].daemon,
                           err |-> requests[r].err,
                           epoch |-> requests[r].epoch])
    /\ requests' = [requests EXCEPT ![r].pc = "idle"]
    /\ UNCHANGED <<producerDaemons, allocated, registryResets, constructions>>
    /\ UNCHANGED daemonVars

\* A goroutine calls ResetProducerDaemons().
ResetCall(r) ==
    /\ requests[r].pc = "idle"
    /\ RequestsMade < MaxRequests
    /\ requests' = [requests EXCEPT ![r] =
                       [pc |-> "resetLock", name |-> "", daemon |-> nil,
                        err |-> "none", epoch |-> 0]]
    /\ UNCHANGED <<producerDaemonLock, producerDaemons, allocated,
                   registryResets, constructions, provided>>
    /\ UNCHANGED daemonVars

\* producerDaemonLock.Lock()
ResetLock(r) ==
    /\ requests[r].pc = "resetLock"
    /\ producerDaemonLock = NoRequester
    /\ producerDaemonLock' = r
    /\ requests' = [requests EXCEPT ![r].pc = "reset"]
    /\ UNCHANGED <<producerDaemons, allocated, registryResets, constructions,
                   provided>>
    /\ UNCHANGED daemonVars

\* producerDaemons = map[string]*ProducerDaemon{} and the deferred Unlock.
ResetBody(r) ==
    /\ requests[r].pc = "reset"
    /\ producerDaemons' = <<>>
    /\ registryResets' = registryResets + 1
    /\ producerDaemonLock' = NoRequester
    /\ requests' = [requests EXCEPT ![r].pc = "idle"]
    /\ UNCHANGED <<allocated, constructions, provided>>
    /\ UNCHANGED daemonVars

NextRegistry ==
    \/ \E r \in Requesters, name \in Names : ProvideCall(r, name)
    \/ \E r \in Requesters : ProvideLock(r)
    \/ \E r \in Requesters : ProvideLookup(r)
    \/ \E r \in Requesters : ProvideConstruct(r)
    \/ \E r \in Requesters : ProvideReturn(r)
    \/ \E r \in Requesters : ResetCall(r)
    \/ \E r \in Requesters : ResetLock(r)
    \/ \E r \in Requesters : ResetBody(r)

InitRegistry ==
    /\ settings = ExampleSettings
    /\ workload = [lens |-> {1}, total |-> 0, calls |-> 0, early |-> FALSE,
                   sink |-> SinkNeverFails,
                   idle |-> {0}]
    /\ InitDaemon

SpecRegistry == InitRegistry /\ [][NextRegistry]_vars

(***************************************************************************)
(* Vocabulary of the properties.                                           *)
(***************************************************************************)
Count(m, s) == Cardinality({i \in 1..Len(s) : s[i] = m})

\* sub occurs in s as one contiguous run.
IsRunOf(sub, s) ==
    \E i \in 0..(Len(s) - Len(sub)) : SubSeq(s, i + 1, i + Len(sub)) = sub

\* The marshaller has failed no fold; no Write and no output loop has panicked.
NoFoldFailure == \A i \in 1..Len(folded) : folded[i].ok
NoPanic == ~dying /\ \A c \in Callers : callers[c].result # "panic"

\* The pushes made by task t, and those made by a forced flush.
PushesBy(t) == SelectSeq(pushed, LAMBDA p : p.task = t)
ForcedPushes == SelectSeq(pushed, LAMBDA p : p.task[1] # "Write")

\* The folds that produced a carrier message.
Carriers == SelectSeq(folded, LAMBDA f : f.ok)

\* The raw messages the sink has been handed, in the order of the sink calls.
SunkRaw == RawOfAll(Flatten(sunk))

\* The messages caller c has had accepted, in arrival order.
WrittenBy(c) == SelectSeq(written, LAMBDA m : m.id[1] = c)

\* How many messages of the latest call of caller c have been appended.
AppendedOfCall(c) ==
    Cardinality({i \in 1..Len(written) :
                    /\ written[i].id[1] = c
                    /\ written[i].id[2] = callers[c].calls})

\* Every Write call made so far had returned nil when the context was cancelled.
AllWritesBeforeCancel == ctxDone /\ Range(written) = atCancel

\* Run has returned nil after a cancellation.
RunReturnedOnCancel == run = "returned" /\ runErr = "nil" /\ ctxDone

(***************************************************************************)
(* C1 (checked under SpecExample: batch size 10, one Write of 25): once    *)
(* the Write call has returned nil, Run running undisturbed, it has itself *)
(* pushed two full batches, the first and the second BatchSize messages of *)
(* the call; and the first batch a forced flush pushes afterwards holds    *)
(* the remaining 5 messages.                                               *)
(***************************************************************************)
C1_WritePushesTwoFullBatches ==
    \A c \in Callers :
        LET msgs == WrittenBy(c)
            mine == PushesBy(WriteTask(c))
            size == settings.BatchSize
        IN  /\ ( /\ callers[c].result = "nil"
                 /\ Len(msgs) > 2 * size
                 /\ ~ctxDone /\ ~dying )
               => /\ Len(mine) = 2
                  /\ mine[1].batch = SubSeq(msgs, 1, size)
                  /\ mine[2].batch = SubSeq(msgs, size + 1, 2 * size)
            /\ ( /\ callers[c].result = "nil"
                 /\ Len(msgs) > 2 * size
                 /\ ForcedPushes # <<>>
                 /\ ~ForcedPushes[1].closed )
               => ForcedPushes[1].batch = SubSeq(msgs, 2 * size + 1, Len(msgs))

(***************************************************************************)
(* C2: with aggregation size 1 and one output loop, when Run has returned  *)
(* nil after a cancellation that followed every Write call, the batches    *)
(* the sink received concatenate to the written messages in order, and     *)
(* every batch but the last holds exactly BatchSize messages.              *)
(***************************************************************************)
C2_SinkGetsWritesInFullBatches ==
    ( /\ settings.AggregationSize = 1
      /\ settings.RunnerCount = 1
      /\ RunReturnedOnCancel
      /\ NoPanic
      /\ AllWritesBeforeCancel )
    => /\ Flatten(sunk) = written
       /\ \A i \in 1..(Len(sunk) - 1) : Len(sunk[i]) = settings.BatchSize

(***************************************************************************)
(* C3 as stated: with aggregation size A > 1, every carrier message        *)
(* produced other than the last one folds exactly A raw messages that are  *)
(* consecutive in arrival order.                                           *)
(***************************************************************************)
C3_NonFinalCarriersFoldExactlyA ==
    settings.AggregationSize > 1 =>
        \A i \in 1..(Len(Carriers) - 1) :
            /\ Len(Carriers[i].msgs) = settings.AggregationSize
            /\ IsRunOf(Carriers[i].msgs, written)

(***************************************************************************)
(* C3 amended: with aggregation size A > 1, every carrier message folds    *)
(* at least 1 and at most A raw messages that are consecutive in arrival   *)
(* order, and every carrier message produced by a Write call folds         *)
(* exactly A.                                                              *)
(***************************************************************************)
C3_CarriersFoldAtMostA ==
    settings.AggregationSize > 1 =>
        \A i \in 1..Len(Carriers) :
            /\ Len(Carriers[i].msgs) \in 1..settings.AggregationSize
            /\ Carriers[i].task[1] = "Write"
                   => Len(Carriers[i].msgs) = settings.AggregationSize
            /\ IsRunOf(Carriers[i].msgs, written)

\* C3: a short carrier message of a tick is followed by a carrier message of
\* a Write call.
C3_Witness ==
    /\ settings.AggregationSize > 1
    /\ \E i, j \in 1..Len(Carriers) :
           /\ i < j
           /\ Carriers[i].task = tickerTask
           /\ Len(Carriers[i].msgs) < settings.AggregationSize
           /\ Carriers[j].task[1] = "Write"

(***************************************************************************)
(* C4: when Run has returned nil after a cancellation, with no fold        *)
(* failure and no panic, every message of a Write call that had returned   *)
(* nil before the cancellation has been passed to the sink.                *)
(***************************************************************************)
C4_AckedBeforeCancelReachesSink ==
    (RunReturnedOnCancel /\ NoFoldFailure /\ NoPanic)
    => atCancel \subseteq Range(SunkRaw)

(***************************************************************************)
(* C5: a Write call of at least one message made after Run has returned    *)
(* nil returns an error, and none of its messages is in a pending buffer.  *)
(***************************************************************************)
C5_NoWriteSucceedsAfterShutdown ==
    \A c \in Callers :
        ( /\ callers[c].late
          /\ callers[c].result # "none"
          /\ AppendedOfCall(c) > 0
          /\ runErr = "nil" )
        => /\ callers[c].result = "err"
           /\ \A m \in Range(aggregate) \cup Range(RawOfAll(batch)) :
                  ~(m.id[1] = c /\ m.id[2] = callers[c].calls)

(***************************************************************************)
(* C6 (checked under SpecBurst: aggregation size 2, batch size 2,          *)
(* concurrent callers): when Run has returned nil after a cancellation     *)
(* that followed every Write call, with no fold failure, every written     *)
(* message is contained in exactly one carrier message the sink received.  *)
(***************************************************************************)
C6_EveryMessageDeliveredOnce ==
    ( /\ settings.AggregationSize > 1
      /\ settings.BatchSize > 1
      /\ RunReturnedOnCancel
      /\ NoFoldFailure
      /\ NoPanic
      /\ AllWritesBeforeCancel )
    => \A m \in Range(written) : Count(m, SunkRaw) = 1

(***************************************************************************)
(* C7: a forced flush (of a tick or of close) that completes, no fold      *)
(* having failed, leaves both pending buffers empty.                       *)
(***************************************************************************)
ForcedFlushCompletes ==
    \E t \in {tickerTask, closeTask} :
        /\ pc[t] \in {"lock", "push"}
        /\ pc'[t] \in {"select", "done"}

C7_ForcedFlushEmptiesBuffers ==
    [][(ForcedFlushCompletes /\ NoFoldFailure' /\ NoPanic')
       => (aggregate' = <<>> /\ batch' = <<>>)]_vars

(***************************************************************************)
(* C8: whenever the lock is free (and no Write has panicked), the pending  *)
(* batch buffer holds fewer than BatchSize carrier messages.               *)
(***************************************************************************)
C8_BatchBelowThreshold ==
    (lck = NoTask /\ NoPanic) => Len(batch) < settings.BatchSize

(***************************************************************************)
(* C9 (checked under SpecBurst): whenever the lock is free, the pending    *)
(* aggregate buffer holds fewer than AggregationSize raw messages.         *)
(***************************************************************************)
C9_AggregateBelowThreshold ==
    (lck = NoTask /\ NoPanic) => Len(aggregate) < settings.AggregationSize

(***************************************************************************)
(* C10: the messages of one Write call are appended as a unit: in the      *)
(* arrival order and in the pending buffer they are appended to, the       *)
(* messages of a call form one contiguous run in the call's order, and at  *)
(* no time has a call in progress had only a part of its messages          *)
(* appended.                                                               *)
(***************************************************************************)
SameCall(m1, m2) == m1.id[1] = m2.id[1] /\ m1.id[2] = m2.id[2]

ContiguousCalls(s) ==
    \A i, j \in 1..Len(s) :
        (i < j /\ SameCall(s[i], s[j]))
        => \A k \in i..j :
               /\ SameCall(s[k], s[i])
               /\ s[k].id[3] = s[i].id[3] + (k - i)

C10_WriteAppendsAsAUnit ==
    /\ ContiguousCalls(written)
    /\ ContiguousCalls(IF settings.AggregationSize > 1 THEN aggregate ELSE batch)
    /\ \A c \in Callers :
           /\ pc[WriteTask(c)] = "lock" => AppendedOfCall(c) = 0
           /\ pc[WriteTask(c)] = "push"
                  => AppendedOfCall(c) = Len(callers[c].arg)

\* C10: a Write call of several messages holds the lock, its messages
\* appended, while the Write call of another caller waits for the lock.
C10_Witness ==
    \E c1, c2 \in Callers :
        /\ c1 # c2
        /\ pc[WriteTask(c1)] = "push"
        /\ Len(callers[c1].arg) >= 2
        /\ AppendedOfCall(c1) = Len(callers[c1].arg)
        /\ pc[WriteTask(c2)] = "lock"
        /\ callers[c2].arg # <<>>

(***************************************************************************)
(* C11: with aggregation size 1, the batches handed to the output channel  *)
(* so far, concatenated in push order, are a prefix of the written         *)
(* messages in the order their Write calls took the lock; so are the       *)
(* batches the channel accepted.                                           *)
(***************************************************************************)
IsPrefix(p, s) == Len(p) <= Len(s) /\ SubSeq(s, 1, Len(p)) = p

BatchesOf(ps) == [i \in 1..Len(ps) |-> ps[i].batch]

Enqueued == SelectSeq(pushed, LAMBDA p : ~p.closed)

C11_PushedIsPrefixOfWritten ==
    settings.AggregationSize = 1 =>
        /\ IsPrefix(Flatten(BatchesOf(pushed)), written)
        /\ IsPrefix(Flatten(BatchesOf(Enqueued)), written)

\* C11: two callers have written, and a Write call and a tick have both
\* pushed a batch.
C11_Witness ==
    /\ settings.AggregationSize = 1
    /\ \A c \in Callers : WrittenBy(c) # <<>>
    /\ PushesBy(tickerTask) # <<>>
    /\ \E c \in Callers : PushesBy(WriteTask(c)) # <<>>
    /\ Len(Flatten(BatchesOf(pushed))) >= 2

(***************************************************************************)
(* C12: a forced flush (of a tick or of close) that starts with the        *)
(* pending buffers non-empty and below their thresholds (fewer than        *)
(* AggregationSize raw messages, and at most BatchSize carrier messages    *)
(* once the aggregate is added), its fold succeeding, takes exactly one    *)
(* batch, the pending carrier messages followed by one aggregate folding   *)
(* all pending raw messages, empties both buffers, and hands that one      *)
(* non-empty batch to the output channel.                                  *)
(***************************************************************************)
ForcedTasks == {tickerTask, closeTask}

\* The step is the flushAll of task t, up to its push.
ForcedFlushBody(t) == pc[t] = "lock" /\ pc'[t] # "lock"

\* The step is the push of the flushBatch of task t.
PushOf(t) == pc[t] = "push" /\ pc'[t] # "push"

\* No fold fails in the step.
FoldOkInStep == folded' = folded \/ folded'[Len(folded')].ok

\* The carrier messages a forced flush has to dispatch.
ForcedCarriers ==
    batch \o (IF aggregate = <<>> THEN <<>>
              ELSE <<BuildAggregateMessage(aggregate,
                                           settings.MessageAttributes)>>)

BelowThresholds ==
    /\ Len(aggregate) < settings.AggregationSize
    /\ Len(ForcedCarriers) \in 1..settings.BatchSize

C13_ForcedFlushOfEmptyBuffersIsNoOp ==
    [][\A t \in ForcedTasks :
          (ForcedFlushBody(t) /\ aggregate = <<>> /\ batch = <<>>)
          => /\ pc'[t] \in {"select", "done"}
             /\ pushed' = pushed
             /\ folded' = folded
             /\ ready' = ready
             /\ outCh'.ch = outCh.ch
             /\ aggregate' = <<>>
             /\ batch' = <<>>]_vars

\* C13: a tick has flushed everything that was written, and the forced flush
\* of close, which followed it with no Write in between, has added nothing.
C13_Witness ==
    /\ pc[closeTask] = "done"
    /\ written # <<>>
    /\ Len(pushed) = 1
    /\ pushed[1].task = tickerTask
    /\ RawOfAll(pushed[1].batch) = written
    /\ NoFoldFailure

(***************************************************************************)
(* C14 (checked under SpecBurst, where a fold can fail while carrier        *)
(* messages are pending; it holds under Spec as well):                     *)
(* when the fold fails inside a Write call, the call returns an            *)
(* error; the AggregationSize raw messages taken from the front of the     *)
(* pending aggregate buffer for the fold are gone from it and are in no    *)
(* buffer, the rest of the buffer stays; the pending batch buffer is       *)
(* unchanged, nothing is handed to the output channel and the ticker is    *)
(* not reset.                                                              *)
(***************************************************************************)
\* The step is the body of the Write call of caller c, and its fold fails.
WriteFoldFails(c) ==
    /\ pc[WriteTask(c)] = "lock"
    /\ pc'[WriteTask(c)] # "lock"
    /\ Len(folded') = Len(folded) + 1
    /\ ~folded'[Len(folded')].ok

C14_FoldFailureAbortsWrite ==
    [][\A c \in Callers :
          WriteFoldFails(c)
          => LET dropped == folded'[Len(folded')].msgs
             IN  /\ callers'[c].result = "err"
                 /\ pc'[WriteTask(c)] = "idle"
                 /\ lck' = NoTask
                 /\ acked' = acked
                 /\ Len(dropped) = settings.AggregationSize
                 /\ aggregate \o callers[c].arg = dropped \o aggregate'
                 /\ Range(dropped) \cap Range(aggregate') = {}
                 /\ Range(dropped) \cap Range(RawOfAll(batch')) = {}
                 /\ batch' = batch
                 /\ ready' = ready
                 /\ pushed' = pushed
                 /\ outCh' = outCh
                 /\ resets' = resets]_vars

\* C14: a Write call has returned an error for a failed fold of two messages
\* buffered by an earlier call, while a carrier message was pending; its own
\* message is still in the pending aggregate buffer, the carrier message in
\* the pending batch buffer, and nothing has been pushed.
C14_Witness ==
    \E c \in Callers :
        /\ callers[c].result = "err"
        /\ folded # <<>>
        /\ LET last == folded[Len(folded)]
           IN  /\ last.task = WriteTask(c)
               /\ ~last.ok
               /\ \A m \in Range(last.msgs) : m.id[1] # c
               /\ Range(last.msgs) \cap Range(aggregate) = {}
        /\ \E m \in Range(aggregate) : m.id[1] = c
        /\ batch # <<>>
        /\ pushed = <<>>

(***************************************************************************)
(* C15 (checked under SpecSink, where sink writes fail):                   *)
(* a Write call returns an error only if the fold failed during that  *)
(* call: with aggregation size 1 no Write call returns an error, and       *)
(* whatever the sink writes of the output loops returned, a Write call     *)
(* that returned an error has a failed fold of its own.                    *)
(***************************************************************************)
FoldFailedIn(c) ==
    \E i \in 1..Len(folded) : folded[i].task = WriteTask(c) /\ ~folded[i].ok

C15_WriteFailsOnlyOnFoldFailure ==
    \A c \in Callers :
        callers[c].result = "err"
        => (settings.AggregationSize > 1 /\ FoldFailedIn(c))

\* C15: a sink write has failed while Run was running, Run has returned
\* after waiting for the output loops, and a Write call made after that has
\* returned nil; so has the Write call whose messages the failed batch
\* carried.
C15_Witness ==
    \E c1, c2 \in Callers :
        /\ c1 # c2
        /\ failed # {}
        /\ \A b \in failed : \A m \in Range(RawOfAll(b)) : m.id[1] = c1
        /\ callers[c1].result = "nil"
        /\ runErr = "nil"
        /\ callers[c2].late
        /\ callers[c2].result = "nil"
        /\ WrittenBy(c2) # <<>>

(***************************************************************************)
(* C16 (checked under SpecSink, where sink writes fail):                   *)
(* a batch whose sink write fails (cancelled or any other error) is   *)
(* lost: the sink call changes neither the output channel nor a pending    *)
(* buffer, the batch is passed to the sink once and is afterwards neither  *)
(* on the channel, nor held by an output loop, nor in a buffer; every      *)
(* batch an output loop has dequeued is passed to the sink exactly once.   *)
(* The output loop that saw the failure goes on to read the channel, and   *)
(* the other output loops are not affected by the step.                    *)
(***************************************************************************)
\* The step is the sink call of output loop w.
SinkCall(w) == workers[w].pc = "write" /\ workers'[w] # workers[w]

\* Batch b is waiting somewhere to be passed to the sink (again).
Pending(b) ==
    \/ b \in Range(outCh.ch)
    \/ \E w \in Runners : workers[w].pc = "write" /\ workers[w].batch = b
    \/ \E t \in Tasks : Range(b) \cap Range(ready[t]) # {}
    \/ Range(b) \cap Range(batch) # {}

C16_FailedBatchIsLost ==
    [][/\ \A w \in Runners :
             SinkCall(w)
             => /\ sunk' = Append(sunk, workers[w].batch)
                /\ outCh' = outCh
                /\ batch' = batch
                /\ aggregate' = aggregate
                /\ ready' = ready
                /\ \A v \in Runners \ {w} : workers'[v] = workers[v]
                /\ failed' # failed
                      => /\ workers'[w] = [pc |-> "read", batch |-> <<>>]
                         /\ dying' = dying
       /\ \A b \in failed' : Count(b, sunk') = 1 /\ ~Pending(b)'
       /\ \A b \in Range(sunk') : Count(b, sunk') = 1
       /\ \A w \in Runners :
             workers'[w].pc = "write" => workers'[w].batch \notin Range(sunk')
      ]_vars

\* C16: the one output loop has seen a sink write fail, has gone on, and
\* has passed a further batch to the sink.
C16_Witness ==
    /\ settings.RunnerCount = 1
    /\ ~dying
    /\ Len(sunk) >= 2
    /\ sunk[1] \in failed
    /\ sunk[2] \notin failed

(***************************************************************************)
(* C17: the daemon moves Created -> Running -> Draining -> Closed only:    *)
(* every step keeps the lifecycle state or moves it to the next one; the   *)
(* flush of close and the closing of the output channel are steps taken in *)
(* Draining, each at most once, the channel never reopens, and Run is past *)
(* its call of close only with the channel closed.                         *)
(***************************************************************************)
WorkersExited ==
    \A w \in Runners : workers[w].pc \in {"off", "done", "panicked"}

\* Created until Run starts; Running until Run calls close; Draining until
\* the channel is closed and every output loop has exited; then Closed.
Lifecycle ==
    IF run = "created" THEN "Created"
    ELSE IF run = "select" THEN "Running"
    ELSE IF outCh.closed /\ WorkersExited THEN "Closed"
    ELSE "Draining"

LifecycleNext ==
    [Created |-> "Running", Running |-> "Draining", Draining |-> "Closed",
     Closed |-> "Closed"]

FoldsBy(t) == SelectSeq(folded, LAMBDA f : f.task = t)

C17_LifecycleInOrder ==
    [][/\ Lifecycle' \in {Lifecycle, LifecycleNext[Lifecycle]}
       /\ pc'[closeTask] # pc[closeTask]
             => Lifecycle \in {"Running", "Draining"}
       /\ (pc'[closeTask] # pc[closeTask] /\ pc[closeTask] # "off")
             => Lifecycle = "Draining"
       /\ outCh'.closed # outCh.closed
             => /\ Lifecycle = "Draining"
                /\ outCh'.closed
                /\ pc'[closeTask] = "done"
       /\ pc[closeTask] = "done" => pc'[closeTask] = "done"
       /\ Len(PushesBy(closeTask)') <= 1
       /\ Len(FoldsBy(closeTask)') <= 1
       /\ run' \in {"wait", "returned"}
             => (outCh'.closed /\ pc'[closeTask] = "done")
      ]_vars

\* C17: the daemon is Closed, Run has returned nil, and the flush of close
\* had pushed a batch.
C17_Witness ==
    /\ Lifecycle = "Closed"
    /\ run = "returned"
    /\ runErr = "nil"
    /\ Len(PushesBy(closeTask)) = 1
    /\ \A w \in Runners : workers[w].pc \in {"off", "done"}

(***************************************************************************)
(* C18: Run leaves its select for close only when the context is cancelled *)
(* or a goroutine of the coffin has panicked; close then makes one forced  *)
(* flush (at most AggregationSize raw messages folded, the carrier message *)
(* added behind the pending batch buffer, at most BatchSize carrier        *)
(* messages cut from its front), and the output channel is closed in the   *)
(* step that ends close, after the push of that flush has been made on the *)
(* open channel.                                                           *)
(***************************************************************************)
Front(s, n) == SubSeq(s, 1, Min(n, Len(s)))
Back(s, n) == SubSeq(s, Min(n, Len(s)) + 1, Len(s))

\* The carrier messages a forced flush makes of the buffers.
FlushCarriers ==
    batch \o (IF aggregate = <<>> THEN <<>>
              ELSE <<BuildAggregateMessage(
                        Front(aggregate, settings.AggregationSize),
                        settings.MessageAttributes)>>)

C18_DrainingFlushesOnceThenCloses ==
    [][/\ (run = "select" /\ run' # "select")
             => ((ctxDone \/ dying) /\ run' = "close")
       /\ (ForcedFlushBody(closeTask) /\ FoldOkInStep)
             => /\ aggregate' = Back(aggregate, settings.AggregationSize)
                /\ batch' = Back(FlushCarriers, settings.BatchSize)
                /\ IF FlushCarriers = <<>>
                   THEN pc'[closeTask] = "done" /\ pushed' = pushed
                   ELSE /\ pc'[closeTask] = "push"
                        /\ ready'[closeTask] =
                               Front(FlushCarriers, settings.BatchSize)
                        /\ ~outCh'.closed
       /\ PushOf(closeTask)
             => /\ ~outCh.closed
                /\ outCh' = [ch |-> Append(outCh.ch, ready[closeTask]),
                             closed |-> TRUE]
                /\ pushed' = Append(pushed, [task |-> closeTask,
                                             batch |-> ready[closeTask],
                                             closed |-> FALSE])
       /\ (~outCh.closed /\ outCh'.closed)
             => /\ pc[closeTask] \in {"lock", "push"}
                /\ pc'[closeTask] = "done"
                /\ ready'[closeTask] = <<>>
                /\ lck' = NoTask
       /\ Len(FoldsBy(closeTask)') + Len(PushesBy(closeTask)') <= 2
       /\ \A i \in 1..Len(FoldsBy(closeTask)') :
             Len(FoldsBy(closeTask)'[i].msgs) <= settings.AggregationSize
      ]_vars

\* C18: an output loop has panicked, the context is not cancelled, and close
\* has pushed the batch of its flush and closed the channel.
C18_Witness ==
    /\ dying
    /\ ~ctxDone
    /\ outCh.closed
    /\ pc[closeTask] = "done"
    /\ Len(PushesBy(closeTask)) = 1
    /\ ~PushesBy(closeTask)[1].closed

(***************************************************************************)
(* C19: whenever Run has returned, whatever it returned, every output loop *)
(* it started has exited.                                                  *)
(***************************************************************************)
C19_RunReturnsAfterWorkersExit ==
    run = "returned" => WorkersExited

(***************************************************************************)
(* C20: no batch is handed to the output channel's Write once the channel  *)
(* has been closed, neither by a Write call nor by a tick.                 *)
(***************************************************************************)
C20_NoPushAfterClose ==
    \A i \in 1..Len(pushed) : ~pushed[i].closed

(***************************************************************************)
(* C21 (checked under SpecSink; it holds under Spec as well):               *)
(* closing the output channel discards no queued batch: the closing        *)
(* step keeps what is queued, a batch leaves the channel only into the     *)
(* hands of an output loop, an output loop returns only from the closed    *)
(* and drained channel, and once the output loops have exited, one of      *)
(* them by returning, every batch the channel accepted has been passed to  *)
(* the sink.                                                               *)
(***************************************************************************)
SomeWorkerReturned == \E w \in Runners : workers[w].pc = "done"

C21_CloseDiscardsNoQueuedBatch ==
    [][/\ (~outCh.closed /\ outCh'.closed) => IsPrefix(outCh.ch, outCh'.ch)
       /\ (outCh'.ch # outCh.ch /\ ~IsPrefix(outCh.ch, outCh'.ch))
             => /\ outCh'.ch = Tail(outCh.ch)
                /\ \E w \in Runners :
                      /\ workers[w].pc = "read"
                      /\ workers'[w] = [pc |-> "write",
                                        batch |-> Head(outCh.ch)]
       /\ SomeWorkerReturned' => (outCh'.closed /\ outCh'.ch = <<>>)
       /\ (SomeWorkerReturned' /\ WorkersExited')
             => \A i \in 1..Len(Enqueued') :
                   Count(Enqueued'[i].batch, sunk') = 1
      ]_vars

\* C21: close has put a batch on the channel in the step that closed it, the
\* output loops have passed it to the sink and have all returned.
C21_Witness ==
    /\ outCh.closed
    /\ Len(PushesBy(closeTask)) = 1
    /\ Count(PushesBy(closeTask)[1].batch, sunk) = 1
    /\ sunk[Len(sunk)] = PushesBy(closeTask)[1].batch
    /\ \A w \in Runners : workers[w].pc \in {"off", "done"}

(***************************************************************************)
(* C22 (checked under SpecSinkFair, with fair scheduling): every Write     *)
(* call, every tick and close eventually complete, and once the context is *)
(* cancelled or a goroutine of the coffin has panicked, Run eventually     *)
(* returns.                                                                *)
(***************************************************************************)
C22_NoOperationBlocksForever ==
    /\ \A c \in Callers :
          (pc[WriteTask(c)] # "idle") ~> (pc[WriteTask(c)] = "idle")
    /\ (pc[tickerTask] \in {"lock", "push"})
          ~> (pc[tickerTask] \in {"select", "done"})
    /\ (pc[closeTask] \in {"lock", "push"}) ~> (pc[closeTask] = "done")
    /\ (ctxDone \/ dying) ~> (run = "returned")

(***************************************************************************)
(* C23: no task holds d.lck while its push is suspended on a full output   *)
(* channel.                                                                *)
(***************************************************************************)
C23_LockNotHeldWhileSuspended ==
    \A t \in Tasks :
        ~(lck = t /\ pc[t] = "push" /\ ~outChCanWrite(outCh))

(***************************************************************************)
(* C24 (checked under SpecBurstFair, with fair scheduling): if the context *)
(* is never cancelled, no output loop ever panics and no fold ever fails,  *)
(* then again and again every message Write has accepted so far has been   *)
(* passed to the sink; the callers make finitely many calls, so every      *)
(* accepted message is eventually passed to the sink, whether a threshold  *)
(* is reached after it or not.                                             *)
(***************************************************************************)
AllWrittenSunk == Range(written) \subseteq Range(SunkRaw)

C24_BufferedMessagesReachTheSink ==
    ([]~ctxDone /\ []~dying /\ []NoFoldFailure) => []<>AllWrittenSunk

\* C24: no Write call has pushed anything, the ticks alone have taken the
\* messages out of the buffers, and the sink has received all of them.
C24_Witness ==
    /\ written # <<>>
    /\ AllWrittenSunk
    /\ \A i \in 1..Len(pushed) : pushed[i].task = tickerTask
    /\ resets = 0
    /\ ~ctxDone
    /\ ~dying
    /\ NoFoldFailure

(***************************************************************************)
(* C25 (checked under SpecMetric).  The Value of an IdleDuration datum is  *)
(* a number of milliseconds; Recorded is the duration it stands for.       *)
(***************************************************************************)
Recorded == metricIdleDuration.value * Millisecond

\* C25 as stated: every IdleDuration value recorded is at most the flush
\* interval; an idle time longer than the interval is recorded as exactly
\* the interval, a shorter one is recorded unchanged.
C25_IdleDurationIsClamped ==
    /\ Recorded <= settings.Interval
    /\ metricIdleDuration.idle > settings.Interval
          => Recorded = settings.Interval
    /\ metricIdleDuration.idle <= settings.Interval
          => Recorded = metricIdleDuration.idle

\* C25 amended: every IdleDuration value recorded is a whole number of
\* milliseconds and at most the flush interval; it is the whole milliseconds
\* of the interval for an idle time longer than the interval, and the whole
\* milliseconds of the idle time otherwise.
C25_IdleDurationIsClampedAndTruncated ==
    LET clamped == Min(metricIdleDuration.idle, settings.Interval)
    IN  /\ metricIdleDuration.value \in Nat
        /\ Recorded <= settings.Interval
        /\ Recorded <= clamped
        /\ clamped < Recorded + Millisecond

\* C25: a datum has been written for an idle time longer than the interval,
\* and the interval is not a whole number of milliseconds.
C25_Witness ==
    /\ metricIdleDuration.idle > settings.Interval
    /\ settings.Interval % Millisecond # 0
    /\ sunk # <<>>

(***************************************************************************)
(* C26 (checked under SpecRegistry): between two calls of                  *)
(* ResetProducerDaemons NewProducerDaemon is called at most once for a     *)
(* name; two requests for the same name that found the same map and got a  *)
(* daemon got the same daemon, and two requests for different names never  *)
(* got the same daemon, whatever the interleaving of the requests.         *)
(***************************************************************************)
C26_OneDaemonPerName ==
    /\ \A i, j \in 1..Len(constructions) :
          (/\ constructions[i].name = constructions[j].name
           /\ constructions[i].epoch = constructions[j].epoch) => i = j
    /\ \A i, j \in 1..Len(provided) :
          (provided[i].daemon # nil /\ provided[j].daemon # nil) =>
             /\ (/\ provided[i].name = provided[j].name
                 /\ provided[i].epoch = provided[j].epoch)
                   => provided[i].daemon = provided[j].daemon
             /\ provided[i].name # provided[j].name
                   => provided[i].daemon # provided[j].daemon

\* C26: two goroutines have asked for the same name and got the same daemon,
\* a request for another name has got another daemon, and a request for the
\* first name after a reset has got a new one.
C26_Witness ==
    \E i, j, k, l \in 1..Len(provided) :
        /\ provided[i].by # provided[j].by
        /\ provided[i].name = provided[j].name
        /\ provided[i].epoch = provided[j].epoch
        /\ provided[i].daemon # nil
        /\ provided[i].daemon = provided[j].daemon
        /\ provided[k].name # provided[i].name
        /\ provided[k].daemon \notin {nil, provided[i].daemon}
        /\ provided[l].name = provided[i].name
        /\ provided[l].epoch # provided[i].epoch
        /\ provided[l].daemon \notin {nil, provided[i].daemon}

(***************************************************************************)
(* C27 (checked under SpecCreated, where Write is also called before       *)
(* Run): a Write call pushes if and only if d.batch, with the carrier      *)
(* messages of the call appended, has at least BatchSize messages; it then *)
(* pushes exactly one batch and resets the timer, and otherwise pushes     *)
(* nothing and leaves the timer alone.                                     *)
(***************************************************************************)
WriteBodyStep(c) ==
    pc[WriteTask(c)] = "lock" /\ pc'[WriteTask(c)] # "lock"

\* d.batch as it was right after the append of the Write call of this step:
\* what the call has taken out of it is in its readyBatch.
AppendedLen(c) == Len(ready'[WriteTask(c)]) + Len(batch')

C27_WritePushesIffThresholdReached ==
    [][\A c \in Callers :
         LET t == WriteTask(c) IN
         /\ WriteBodyStep(c) =>
               /\ pc'[t] = "push" <=> AppendedLen(c) >= settings.BatchSize
               /\ pc'[t] = "push" =>
                     /\ resets' = resets + 1
                     /\ ready'[t] # <<>>
               /\ pc'[t] # "push" => resets' = resets
               /\ pushed' = pushed
         /\ PushOf(t) =>
               /\ pushed' = Append(pushed, [task |-> t, batch |-> ready[t],
                                            closed |-> outCh.closed])
               /\ pc'[t] = "idle"
               /\ resets' = resets]_vars

(***************************************************************************)
(* C28 (checked under SpecBurst, where one call brings more than twice the *)
(* aggregation size): with aggregation size A > 1, a Write that finds A or *)
(* more messages in d.aggregate after its append takes exactly the first A *)
(* of them for one fold, which (when it succeeds) appends exactly one      *)
(* carrier message to d.batch, and leaves the others in d.aggregate in     *)
(* their order; a Write that finds fewer takes nothing and appends no      *)
(* carrier message.                                                        *)
(***************************************************************************)
C28_WriteFoldsTheFirstA ==
    [][\A c \in Callers :
         (WriteBodyStep(c) /\ settings.AggregationSize > 1) =>
            LET t == WriteTask(c)
                A == settings.AggregationSize
                appended == aggregate \o callers[c].arg
                carriers == ready'[t] \o batch'
            IN  IF Len(appended) >= A
                THEN /\ aggregate' = SubSeq(appended, A + 1, Len(appended))
                     /\ Len(folded') = Len(folded) + 1
                     /\ folded'[Len(folded')].task = t
                     /\ folded'[Len(folded')].msgs = SubSeq(appended, 1, A)
                     /\ IF FoldOkInStep
                        THEN carriers =
                               Append(batch,
                                      BuildAggregateMessage(
                                          SubSeq(appended, 1, A),
                                          settings.MessageAttributes))
                        ELSE carriers = batch
                ELSE /\ aggregate' = appended
                     /\ folded' = folded
                     /\ carriers = batch]_vars

\* C28: one Write call has folded its first A messages into the one carrier
\* message that is pending, and left the others, A or more, in d.aggregate.
C28_Witness ==
    /\ Len(folded) = 1
    /\ folded[1].ok
    /\ folded[1].task \in {WriteTask(c) : c \in Callers}
    /\ Len(aggregate) >= settings.AggregationSize
    /\ written = folded[1].msgs \o aggregate
    /\ batch = <<BuildAggregateMessage(folded[1].msgs,
                                       settings.MessageAttributes)>>

(***************************************************************************)
(* C29 (checked under SpecExample: batch size 10 and one Write call of 25  *)
(* messages): every flushBatch, of a Write at the threshold, of a tick or  *)
(* of close, cuts the first min(BatchSize, len(d.batch)) carrier messages  *)
(* off d.batch and hands them to the output channel as one batch; the      *)
(* others stay in d.batch in their order; with d.batch empty it pushes     *)
(* nothing and changes nothing.                                            *)
(***************************************************************************)
TaskBodyStep(t) == pc[t] = "lock" /\ pc'[t] # "lock"

\* flushBatch runs in the step of task t: in a Write that reaches it, and in
\* a flushAll whose fold does not fail.
FlushBatchIn(t) ==
    /\ TaskBodyStep(t)
    /\ IF t \in ForcedTasks THEN FoldOkInStep ELSE pc'[t] = "push"

C29_FlushBatchCutsTheFront ==
    [][\A t \in Tasks :
         /\ FlushBatchIn(t) =>
               LET buffer == ready'[t] \o batch'
               IN  /\ IsPrefix(batch, buffer)
                   /\ Len(ready'[t]) = Min(settings.BatchSize, Len(buffer))
                   /\ pc'[t] = "push" <=> buffer # <<>>
                   /\ buffer = <<>> => batch' = batch
                   /\ pushed' = pushed
                   /\ outCh'.ch = outCh.ch
         /\ PushOf(t) =>
               /\ pushed' = Append(pushed, [task |-> t, batch |-> ready[t],
                                            closed |-> outCh.closed])
               /\ ~outCh.closed => outCh'.ch = Append(outCh.ch, ready[t])
               /\ batch' = batch
               /\ ready'[t] = <<>>]_vars

\* C29: the Write call of 25 messages has pushed the first 10, a tick has
\* cut the next 10 off and left the last 5 pending, in their order.
C29_Witness ==
    /\ Len(written) = 25
    /\ Len(pushed) = 1
    /\ pushed[1].batch = SubSeq(written, 1, 10)
    /\ pc[tickerTask] = "push"
    /\ ready[tickerTask] = SubSeq(written, 11, 20)
    /\ batch = SubSeq(written, 21, 25)

(***************************************************************************)
(* C30 (checked under SpecSink): with aggregation size 1 d.aggregate is    *)
(* empty and no fold has been made in every reachable state, whatever      *)
(* Write calls, ticks and the close have run, and every Write appends the  *)
(* messages of its call to d.batch as they are and in their order.         *)
(***************************************************************************)
C30_AggregationSizeOneIsPassThrough ==
    /\ [](settings.AggregationSize = 1 => (aggregate = <<>> /\ folded = <<>>))
    /\ [][\A c \in Callers :
            (WriteBodyStep(c) /\ settings.AggregationSize = 1) =>
               /\ ready'[WriteTask(c)] \o batch' = batch \o callers[c].arg
               /\ written' = written \o callers[c].arg]_vars

\* C30: with aggregation size 1 three messages have been written, Write
\* calls and a tick have pushed them as they were written, the close has
\* run, and nothing was ever folded.
C30_Witness ==
    /\ settings.AggregationSize = 1
    /\ Len(written) = 3
    /\ \E i \in 1..Len(pushed) : pushed[i].task = tickerTask
    /\ \E i \in 1..Len(pushed) : pushed[i].task \notin ForcedTasks
    /\ pc[closeTask] = "done"
    /\ Flatten([i \in 1..Len(pushed) |-> pushed[i].batch]) = written
    /\ folded = <<>>
    /\ aggregate = <<>>

(***************************************************************************)
(* C31 (checked under SpecSink, where pushes wait on a full channel with   *)
(* the lock held): at most one of the Write calls, the tick and the close  *)
(* is between its Lock and its Unlock, and d.aggregate and d.batch change  *)
(* only in a step of the one task that has taken the lock, while no other  *)
(* task holds it.                                                          *)
(***************************************************************************)
\* The tasks between Lock and Unlock in this state: a task that is not
\* suspended runs from Lock to Unlock, or to its push, in one step.
InCriticalSection == {t \in Tasks : pc[t] = "push"}

C31_BuffersChangeUnderTheLock ==
    /\ [](/\ Cardinality(InCriticalSection) <= 1
          /\ \A t \in Tasks : lck = t <=> t \in InCriticalSection)
    /\ [][(aggregate' # aggregate \/ batch' # batch) =>
            /\ lck = NoTask
            /\ Cardinality({t \in Tasks : TaskBodyStep(t)}) = 1]_vars

\* C31: a Write call holds the lock at its push with a message left in
\* d.batch, while the other Write call, the tick and the close all wait for
\* the lock.
C31_Witness ==
    \E c \in Callers :
        /\ lck = WriteTask(c)
        /\ batch # <<>>
        /\ \A t \in Tasks \ {WriteTask(c)} : pc[t] = "lock"

(***************************************************************************)
(* C32 (checked under SpecSink, with a sink whose writes fail): an output  *)
(* loop returns only from a Read on the closed and drained channel; it     *)
(* goes back to Read after a failed sink write, and the cancellation of    *)
(* the context does not end it while the channel is open or holds batches. *)
(***************************************************************************)
C32_WorkerReturnsOnlyOnClosedAndDrained ==
    /\ [](\A w \in Runners :
            workers[w].pc = "done" => (outCh.closed /\ outCh.ch = <<>>))
    /\ [][\A w \in Runners :
            /\ (workers[w].pc # "done" /\ workers'[w].pc = "done") =>
                  /\ workers[w].pc = "read"
                  /\ outCh.closed
                  /\ outCh.ch = <<>>
            /\ (workers[w].pc = "write" /\ workers'[w].pc # "write") =>
                  workers'[w].pc \in {"read", "panicked"}]_vars

\* C32: the first sink write of the only output loop failed and the context
\* was cancelled with the channel still open; the loop has gone on to pass
\* all three batches to the sink and is still reading.
C32_Witness ==
    /\ settings.RunnerCount = 1
    /\ Len(sunk) = 3
    /\ sunk[1] \in failed
    /\ ctxDone
    /\ ~outCh.closed
    /\ workers[1].pc = "read"

(***************************************************************************)
(* C33: every carrier message passed to the sink carries the static        *)
(* attributes of the settings, whatever the aggregation size.              *)
(***************************************************************************)
C33_SunkCarriersAreStamped ==
    \A i \in 1..Len(sunk) :
        \A k \in 1..Len(sunk[i]) :
            settings.MessageAttributes \subseteq sunk[i][k].attributes

(***************************************************************************)
(* C34: every batch handed to the output channel, by a Write call, a tick  *)
(* or the close, has at least 1 and at most BatchSize carrier messages,    *)
(* and every fold, of a Write call or of a forced flush, is applied to at  *)
(* least 1 and at most AggregationSize raw messages.                       *)
(***************************************************************************)
C34_BatchesAndFoldsWithinBounds ==
    /\ \A i \in 1..Len(pushed) :
          Len(pushed[i].batch) \in 1..settings.BatchSize
    /\ \A i \in 1..Len(folded) :
          Len(folded[i].msgs) \in 1..settings.AggregationSize
    /\ \A t \in Tasks : Len(ready[t]) <= settings.BatchSize
    /\ \A i \in 1..Len(outCh.ch) : outCh.ch[i] # <<>>

\* C34: a Write call has folded AggregationSize = 2 messages, a forced flush
\* has folded a single one, and the two carrier messages have been pushed
\* as one batch of BatchSize = 2.
C34_Witness ==
    /\ settings.AggregationSize = 2
    /\ settings.BatchSize = 2
    /\ \E i, j \in 1..Len(folded) :
          /\ folded[i].task \notin ForcedTasks
          /\ Len(folded[i].msgs) = 2
          /\ folded[j].task \in ForcedTasks
          /\ Len(folded[j].msgs) = 1
    /\ \E i \in 1..Len(pushed) : Len(pushed[i].batch) = 2

(***************************************************************************)
(* C35: every raw message a Write has accepted is in exactly one place: in *)
(* d.aggregate, in one carrier message of d.batch, in one batch at a push, *)
(* on the output channel or in the hands of an output loop, dropped by a   *)
(* failed fold, or in one batch the sink has been handed.                  *)
(***************************************************************************)
RECURSIVE SumOver(_, _)
SumOver(S, f) ==
    IF S = {} THEN 0
    ELSE LET x == CHOOSE y \in S : TRUE
         IN  f[x] + SumOver(S \ {x}, f)

\* The raw messages of the folds that failed.
DroppedByFold ==
    Flatten([i \in 1..Len(folded) |->
                IF folded[i].ok THEN <<>> ELSE folded[i].msgs])

\* In how many places the raw message m is.
Places(m) ==
    Count(m, aggregate)
    + Count(m, RawOfAll(batch))
    + SumOver(Tasks, [t \in Tasks |-> Count(m, RawOfAll(ready[t]))])
    + Count(m, RawOfAll(Flatten(outCh.ch)))
    + SumOver(Runners,
              [w \in Runners |-> Count(m, RawOfAll(workers[w].batch))])
    + Count(m, DroppedByFold)
    + Count(m, SunkRaw)

C35_EveryMessageInExactlyOnePlace ==
    \A m \in Range(written) : Places(m) = 1

(***************************************************************************)
(* C36 (checked under SpecRegistry): ProvideProducerDaemon never returns a *)
(* nil daemon with a nil error: a request for a name whose construction   *)
(* has failed reports an error again or returns a constructed daemon.      *)
(***************************************************************************)
C36_NoNilDaemonWithoutError ==
    \A i \in 1..Len(provided) :
        provided[i].daemon = nil => provided[i].err = "error"

(***************************************************************************)
(* C37 (checked under SpecCreated, where Write is also called before Run): *)
(* no Write call ends in a runtime fault; a call that brings d.batch to    *)
(* BatchSize before Run finds a timer to reset.                            *)
(***************************************************************************)
C37_WriteNeverPanics ==
    \A c \in Callers : callers[c].result # "panic"

(***************************************************************************)
(* C38 (checked under SpecBurst, where a carrier message is pending when   *)
(* the fold fails): a forced flush whose fold fails pushes nothing and     *)
(* leaves d.batch as it is; the messages taken for the fold are dropped;   *)
(* the tick unlocks and tickerLoop is back in its select; close still      *)
(* closes the channel and Run returns the error.                           *)
(***************************************************************************)
C38_FailedForcedFoldPushesNothing ==
    [][\A t \in ForcedTasks :
         (ForcedFlushBody(t) /\ ~FoldOkInStep) =>
            LET size == Min(settings.AggregationSize, Len(aggregate))
                taken == SubSeq(aggregate, 1, size)
            IN  /\ batch' = batch
                /\ pushed' = pushed
                /\ ready' = ready
                /\ outCh'.ch = outCh.ch
                /\ aggregate' = SubSeq(aggregate, size + 1, Len(aggregate))
                /\ folded'[Len(folded')].msgs = taken
                /\ \A m \in Range(taken) :
                      /\ Count(m, DroppedByFold') = 1
                      /\ Places(m)' = 1
                /\ lck' = NoTask
                /\ t = tickerTask =>
                      /\ pc'[t] = "select"
                      /\ ticker' = ticker
                      /\ run' = run
                      /\ outCh' = outCh
                /\ t = closeTask =>
                      /\ pc'[t] = "done"
                      /\ outCh'.closed
                      /\ run' = "returned"
                      /\ runErr' = "error on close"]_vars

\* C38: the fold of a tick and the fold of close have both failed with a
\* carrier message pending; it is still in d.batch, nothing has been pushed,
\* the channel is closed and Run has returned the error of close.
C38_Witness ==
    /\ \E i, j \in 1..Len(folded) :
          /\ folded[i].task = tickerTask /\ ~folded[i].ok
          /\ folded[j].task = closeTask /\ ~folded[j].ok
    /\ batch # <<>>
    /\ pushed = <<>>
    /\ outCh.closed
    /\ run = "returned"
    /\ runErr = "error on close"

====
